---- MODULE Spec2Model ----
(***************************************************************************)
(* Model of the APNIC delegated-ledger pipeline:                           *)
(*   scripts/parse_apnic_data.py   (APNICParser.parse_line,                *)
(*       calculate_ip_range, validate_ip_data, parse_data)                 *)
(*   scripts/generate_cidr_lists.py (ip_to_sort_key, generate_cidr_list)   *)
(*                                                                         *)
(* Representation.                                                         *)
(*   - A Python str is a sequence of characters; a character is a          *)
(*     one-element TLA+ string.  Two non-ASCII code points are written as  *)
(*     the tokens "sup2" (U+00B2, SUPERSCRIPT TWO: str.isdigit() is True,  *)
(*     int() raises ValueError) and "ar3" (U+0663, ARABIC-INDIC DIGIT      *)
(*     THREE: str.isdigit() is True, int() gives 3).                       *)
(*   - A Python int (unbounded) is a sequence of bits, least significant   *)
(*     first, with no leading zero bit; <<>> is 0.  Addresses (32 or 128   *)
(*     bits) and counts therefore keep their full width.                   *)
(*   - A raised exception is the value Raise; a Python None is None.       *)
(***************************************************************************)
EXTENDS Integers, Sequences, FiniteSets, TLC

VARIABLES
    lines,            \* parse_data: data.split('\n')
    processed_lines,  \* parse_data: loop counter (lines visited so far)
    skipped_lines,    \* parse_data: skipped counter
    ipv4,             \* results['ipv4']
    ipv6,             \* results['ipv6']
    asn,              \* results['asn']
    pc,               \* position of the run
    query,            \* the last generate_cidr_list call: <<ip_type, country>>
    out,              \* its return value
    entry,            \* a single entry handed to validate_ip_data
    verdict           \* the return value of parse_line / validate_ip_data

vars == <<lines, processed_lines, skipped_lines, ipv4, ipv6, asn, pc,
          query, out, entry, verdict>>

\* Python's None, and the outcome "an exception was raised", as records so that
\* they compare with the dicts and objects they stand in for
None == [none |-> TRUE]
Raise == [exc |-> TRUE]

-----------------------------------------------------------------------------
(* Python str operations                                                   *)

AsciiDigits == {"0", "1", "2", "3", "4", "5", "6", "7", "8", "9"}

\* characters c with c.isdigit() (Unicode Nd, plus digit-like No such as U+00B2)
IsDigitChars == AsciiDigits \cup {"sup2", "ar3"}

\* characters int() accepts as a decimal digit (Unicode Nd)
DecimalChars == AsciiDigits \cup {"ar3"}

\* characters removed by str.strip()
Whitespace == {" ", "\t", "\r"}

HexDigits == AsciiDigits \cup {"a", "b", "c", "d", "e", "f",
                               "A", "B", "C", "D", "E", "F"}

DigitVal(c) ==
    CASE c = "0" -> 0 [] c = "1" -> 1 [] c = "2" -> 2 [] c = "3" -> 3
      [] c = "4" -> 4 [] c = "5" -> 5 [] c = "6" -> 6 [] c = "7" -> 7
      [] c = "8" -> 8 [] c = "9" -> 9 [] c = "ar3" -> 3
      [] c \in {"a", "A"} -> 10 [] c \in {"b", "B"} -> 11
      [] c \in {"c", "C"} -> 12 [] c \in {"d", "D"} -> 13
      [] c \in {"e", "E"} -> 14 [] c \in {"f", "F"} -> 15

DigitChar(d) ==
    <<"0", "1", "2", "3", "4", "5", "6", "7", "8", "9",
      "a", "b", "c", "d", "e", "f">>[d + 1]

Range(s) == {s[i] : i \in DOMAIN s}

\* the element of a one-element set.  Only({F(v) : v \in {e}}) is F(e) with e
\* evaluated once and its value bound to v, as Python binds a local variable
\* or an argument
Only(S) == CHOOSE y \in S : TRUE

\* the positions of sep in s, and the k-th of them
SepPositions(s, sep) == {i \in DOMAIN s : s[i] = sep}

SepPosition(s, sep, k) ==
    CHOOSE i \in SepPositions(s, sep) :
        Cardinality({j \in SepPositions(s, sep) : j < i}) = k - 1

\* s.split(sep) for a one-character sep: the pieces between the separators
Split(s, sep) ==
    LET n == Cardinality(SepPositions(s, sep)) + 1
    IN  [k \in 1..n |->
            SubSeq(s,
                   IF k = 1 THEN 1 ELSE SepPosition(s, sep, k - 1) + 1,
                   IF k = n THEN Len(s) ELSE SepPosition(s, sep, k) - 1)]

\* sep.join(parts)
RECURSIVE Join(_, _)
Join(parts, sep) ==
    IF parts = <<>> THEN <<>>
    ELSE IF Len(parts) = 1 THEN parts[1]
    ELSE parts[1] \o <<sep>> \o Join(Tail(parts), sep)

\* str.isdigit(): non-empty and every character a digit
IsDigit(s) == s # <<>> /\ Range(s) \subseteq IsDigitChars

\* str.isascii() and str.isdigit()
IsAsciiDigit(s) == s # <<>> /\ Range(s) \subseteq AsciiDigits

\* not s.strip(): s is empty or whitespace only
IsBlank(s) == Range(s) \subseteq Whitespace

StartsWith(s, c) == s # <<>> /\ s[1] = c

-----------------------------------------------------------------------------------------------------------------------------------------------------
(* Python int: unbounded, as little-endian bit sequences.  Arithmetic is   *)
(* carried out on groups of 16 bits.                                       *)

Min(x, y) == IF x <= y THEN x ELSE y
Max(x, y) == IF x >= y THEN x ELSE y

\* b without its zero bits above the highest set bit
Norm(b) ==
    LET ones == {i \in DOMAIN b : b[i] = 1}
    IN  IF ones = {} THEN <<>>
        ELSE SubSeq(b, 1, CHOOSE i \in ones : \A j \in ones : j <= i)

\* n as exactly w bits, least significant first
FromIntWide(n, w) == [i \in 1..w |-> (n \div 2^(i - 1)) % 2]

\* a small n >= 0 as a Python int
FromInt(n) == Only({Norm(b) : b \in {FromIntWide(n, 31)}})

\* the value of bits lo..hi of b, bit lo counting 1 (fewer than 31 bits)
RECURSIVE BitsValue(_, _, _)
BitsValue(b, lo, hi) ==
    IF lo > hi THEN 0
    ELSE IF lo = hi THEN b[lo]
    ELSE LET mid == (lo + hi) \div 2
         IN  BitsValue(b, lo, mid) + 2^(mid - lo + 1) * BitsValue(b, mid + 1, hi)

\* the value of a bit sequence of fewer than 31 bits
ToInt(b) == BitsValue(b, 1, Len(b))

\* bits (k-1)*w+1 .. k*w of a, counted from the least significant, as an integer
Group(a, k, w) ==
    Only({ToInt(b) :
            b \in {[i \in 1..w |-> IF (k - 1) * w + i <= Len(a)
                                    THEN a[(k - 1) * w + i] ELSE 0]}})

\* the number of 16-bit groups of a
GroupCount(a) == (Len(a) + 15) \div 16

\* the Python int whose 16-bit groups, least significant first, are gs
OfGroups(gs) ==
    Only({Norm(b) :
            b \in {[i \in 1..(Len(gs) * 16) |->
                      (gs[((i - 1) \div 16) + 1] \div 2^((i - 1) % 16)) % 2]}})

\* the carry into group k of a + b
RECURSIVE CarryInto(_, _, _)
CarryInto(a, b, k) ==
    IF k = 1 THEN 0
    ELSE (Group(a, k - 1, 16) + Group(b, k - 1, 16) + CarryInto(a, b, k - 1))
         \div 65536

\* a + b
Add(a, b) ==
    Only({OfGroups(gs) :
            gs \in {[k \in 1..(Max(GroupCount(a), GroupCount(b)) + 1) |->
                       (Group(a, k, 16) + Group(b, k, 16) + CarryInto(a, b, k))
                       % 65536]}})

\* the borrow out of group k - 1 of a - b
RECURSIVE BorrowInto(_, _, _)
BorrowInto(a, b, k) ==
    IF k = 1 THEN 0
    ELSE IF Group(a, k - 1, 16) - Group(b, k - 1, 16) - BorrowInto(a, b, k - 1) < 0
         THEN 1
    ELSE 0

\* a - b, for a >= b
Sub(a, b) ==
    Only({OfGroups(gs) :
            gs \in {[k \in 1..GroupCount(a) |->
                       (Group(a, k, 16) - Group(b, k, 16) - BorrowInto(a, b, k)
                        + 65536) % 65536]}})

\* a < b
Less(a, b) ==
    IF Len(a) # Len(b) THEN Len(a) < Len(b)
    ELSE \E i \in DOMAIN a :
            /\ a[i] < b[i]
            /\ \A j \in (i + 1)..Len(a) : a[j] = b[j]

Leq(a, b) == ~Less(b, a)

One == <<1>>

\* 1 << n
Pow2(n) == [i \in 1..(n + 1) |-> IF i = n + 1 THEN 1 ELSE 0]

\* int.bit_length()
BitLength(a) == Len(a)

\* the number of zero bits below the lowest set bit, for a # 0
LowZeros(a) ==
    (CHOOSE i \in DOMAIN a : a[i] = 1 /\ \A j \in 1..(i - 1) : a[j] = 0) - 1

\* the carry into group k of a * m + d, for m <= 10000 and d < m
RECURSIVE CarryMul(_, _, _, _)
CarryMul(a, m, d, k) ==
    IF k = 1 THEN d
    ELSE (Group(a, k - 1, 16) * m + CarryMul(a, m, d, k - 1)) \div 65536

\* a * m + d
MulAdd(a, m, d) ==
    Only({OfGroups(gs) :
            gs \in {[k \in 1..(GroupCount(a) + 1) |->
                       (Group(a, k, 16) * m + CarryMul(a, m, d, k)) % 65536]}})

\* the value of the decimal characters s[lo..hi], at most four of them
DigitsValue(s, lo, hi) ==
    IF lo = hi THEN DigitVal(s[lo])
    ELSE IF lo + 1 = hi THEN DigitVal(s[lo]) * 10 + DigitVal(s[hi])
    ELSE IF lo + 2 = hi
         THEN DigitVal(s[lo]) * 100 + DigitVal(s[lo + 1]) * 10 + DigitVal(s[hi])
    ELSE DigitVal(s[lo]) * 1000 + DigitVal(s[lo + 1]) * 100
         + DigitVal(s[lo + 2]) * 10 + DigitVal(s[hi])

\* int(s[:n]) for s of decimal characters: base-10 accumulation, four digits
\* at a step
RECURSIVE DecimalFrom(_, _)
DecimalFrom(s, n) ==
    IF n = 0 THEN <<>>
    ELSE Only({MulAdd(acc, 10^(n - lo + 1), DigitsValue(s, lo, n)) :
                 lo \in {Max(1, n - 3)}, acc \in {DecimalFrom(s, Max(1, n - 3) - 1)}})

\* int(s) for s with s.isdigit(): raises ValueError on a digit that is not decimal
int_raises(s) == ~(Range(s) \subseteq DecimalChars)

\* int(s) where it does not raise
int_of(s) == DecimalFrom(s, Len(s))

\* int(s, base) for a short s (value below 2^31), as a TLC integer
RECURSIVE SmallInt(_, _, _, _)
SmallInt(s, base, i, acc) ==
    IF i > Len(s) THEN acc
    ELSE SmallInt(s, base, i + 1, acc * base + DigitVal(s[i]))

\* '%d' % n and '%x' % n for a small n >= 0
RECURSIVE SmallStr(_, _)
SmallStr(n, base) ==
    IF n < base THEN <<DigitChar(n)>>
    ELSE Append(SmallStr(n \div base, base), DigitChar(n % base))

-----------------------------------------------------------------------------
(* The ipaddress library, as the scripts use it.  An address object is     *)
(* [version, ip], a network object [version, ip, prefixlen]; a function    *)
(* that raises returns Raise (an integer-valued one returns -1).  A value  *)
(* that the library computes once and then uses several times is handed    *)
(* on as a parameter of the definition of the next step.                   *)

IPV4LENGTH == 32
IPV6LENGTH == 128

max_prefixlen(version) == IF version = 4 THEN IPV4LENGTH ELSE IPV6LENGTH

\* IPv4Address._parse_octet, its last step: "if octet_int > 255: raise"
OctetInRange(octet_int) == IF octet_int > 255 THEN -1 ELSE octet_int

\* IPv4Address._parse_octet: the octet as an integer, -1 for ValueError
parse_octet(octet_str) ==
    IF octet_str = <<>> THEN -1
    ELSE IF ~IsAsciiDigit(octet_str) THEN -1
    ELSE IF Len(octet_str) > 3 THEN -1
    ELSE IF octet_str # <<"0">> /\ octet_str[1] = "0" THEN -1
    ELSE Only({OctetInRange(octet_int) :
                 octet_int \in {SmallInt(octet_str, 10, 1, 0)}})

\* int.from_bytes(groups, 'big') for groups of w bits
FromGroups(gs, w) ==
    Only({Norm(b) :
            b \in {[i \in 1..(Len(gs) * w) |->
                      (gs[Len(gs) - ((i - 1) \div w)] \div 2^((i - 1) % w)) % 2]}})

\* the address made of the parsed groups gs; a group that failed to parse (-1)
\* makes the constructor raise
Packed(gs, w, version) ==
    IF \E i \in DOMAIN gs : gs[i] = -1 THEN Raise
    ELSE [version |-> version, ip |-> FromGroups(gs, w)]

\* IPv4Address._ip_int_from_string, from "if len(octets) != 4" on
IPv4FromOctets(octets) ==
    IF Len(octets) # 4 THEN Raise
    ELSE Only({Packed(gs, 8, 4) :
                 gs \in {[i \in 1..4 |-> parse_octet(octets[i])]}})

\* IPv4Address(address) for a str: __init__ and _ip_int_from_string
IPv4Address(address) ==
    IF "/" \in Range(address) THEN Raise
    ELSE IF address = <<>> THEN Raise
    ELSE Only({IPv4FromOctets(octets) : octets \in {Split(address, ".")}})

\* IPv6Address._parse_hextet: the hextet as an integer, -1 for ValueError
parse_hextet(hextet_str) ==
    IF ~(Range(hextet_str) \subseteq HexDigits) THEN -1
    ELSE IF Len(hextet_str) > 4 THEN -1
    ELSE IF hextet_str = <<>> THEN -1      \* int('', 16)
    ELSE SmallInt(hextet_str, 16, 1, 0)

\* parts with its IPv4-style last part replaced by the two hextets of the
\* address suffix;
\* <<>> when that part did not parse
V6Replace(parts, suffix) ==
    IF suffix = Raise THEN <<>>
    ELSE SubSeq(parts, 1, Len(parts) - 1)
         \o <<SmallStr(Group(suffix.ip, 2, 16), 16),
              SmallStr(Group(suffix.ip, 1, 16), 16)>>

\* IPv6Address._ip_int_from_string: "if '.' in parts[-1]"
V6WithSuffix(parts) ==
    IF "." \in Range(parts[Len(parts)])
    THEN Only({V6Replace(parts, suffix) :
                 suffix \in {IPv4Address(parts[Len(parts)])}})
    ELSE parts

\* the indexes i of Python's range(1, len(parts) - 1) with an empty part
SkipIndexes(parts) == {i \in 2..(Len(parts) - 1) : parts[i] = <<>>}

\* the two parsing loops: parts_hi leading hextets, zeros, parts_lo trailing ones
V6Hextets(parts, parts_hi, parts_lo) ==
    Only({Packed(gs, 16, 6) :
            gs \in {[i \in 1..8 |->
                       IF i <= parts_hi THEN parse_hextet(parts[i])
                       ELSE IF i <= 8 - parts_lo THEN 0
                       ELSE parse_hextet(parts[Len(parts) - (8 - i)])]}})

\* the checks of an address with '::', for parts_hi and parts_lo already
\* reduced by an empty first and last part
V6Compressed(parts, parts_hi, parts_lo) ==
    IF parts[1] = <<>> /\ parts_hi # 0 THEN Raise
    ELSE IF parts[Len(parts)] = <<>> /\ parts_lo # 0 THEN Raise
    ELSE IF 8 - (parts_hi + parts_lo) < 1 THEN Raise
    ELSE V6Hextets(parts, parts_hi, parts_lo)

\* "if skip_index is not None": skip_index counts from 1 here
V6Skipping(parts, skip_index) ==
    V6Compressed(parts,
                 IF parts[1] = <<>> THEN skip_index - 2 ELSE skip_index - 1,
                 IF parts[Len(parts)] = <<>> THEN Len(parts) - skip_index - 1
                 ELSE Len(parts) - skip_index)

\* the checks of an address without '::'
V6Full(parts) ==
    IF Len(parts) # 8 THEN Raise
    ELSE IF parts[1] = <<>> \/ parts[8] = <<>> THEN Raise
    ELSE V6Hextets(parts, 8, 0)

\* IPv6Address._ip_int_from_string, from "_max_parts = cls._HEXTET_COUNT + 1" on
V6FromParts(parts) ==
    IF parts = <<>> THEN Raise                       \* the IPv4 suffix was bad
    ELSE IF Len(parts) > 8 + 1 THEN Raise
    ELSE IF Cardinality(SkipIndexes(parts)) > 1 THEN Raise
    ELSE IF SkipIndexes(parts) = {} THEN V6Full(parts)
    ELSE Only({V6Skipping(parts, skip_index) : skip_index \in SkipIndexes(parts)})

\* IPv6Address._ip_int_from_string, from "_min_parts = 3" on
V6FromSplit(parts) ==
    IF Len(parts) < 3 THEN Raise
    ELSE Only({V6FromParts(all_parts) : all_parts \in {V6WithSuffix(parts)}})

\* IPv6Address(address) for a str without a zone id: __init__ and
\* _ip_int_from_string
IPv6Address(address) ==
    IF "/" \in Range(address) THEN Raise
    ELSE IF address = <<>> THEN Raise
    ELSE Only({V6FromSplit(parts) : parts \in {Split(address, ":")}})

\* IPv4Address(n) / IPv6Address(n) for an int n >= 0: _check_int_address
AddressOfInt(n, version) ==
    IF BitLength(n) > max_prefixlen(version) THEN Raise
    ELSE [version |-> version, ip |-> n]

\* IPv4Address._string_from_ip_int
ipv4_string(n) ==
    Only({Join(octets, ".") :
            octets \in {[i \in 1..4 |-> SmallStr(Group(n, 5 - i, 8), 10)]}})

\* the length of the run of "0" hextets starting at index i
RECURSIVE ZeroRun(_, _)
ZeroRun(h, i) ==
    IF i > Len(h) THEN 0
    ELSE IF h[i] # 0 THEN 0
    ELSE 1 + ZeroRun(h, i + 1)

\* _compress_hextets: the length of the longest run of zero hextets
BestLen(h) ==
    CHOOSE l \in 0..8 :
        /\ \E i \in 1..8 : ZeroRun(h, i) = l
        /\ \A i \in 1..8 : ZeroRun(h, i) <= l

\* _compress_hextets: the start of the first run of that length
BestStart(h, best_len) ==
    CHOOSE i \in 1..8 :
        /\ ZeroRun(h, i) = best_len
        /\ \A j \in 1..(i - 1) : ZeroRun(h, j) < best_len

\* _compress_hextets: the run replaced by '', with the '' a run at either end adds
Compressed(hex, best_start, best_len) ==
    (IF best_start = 1 THEN <<<<>>>> ELSE <<>>)
    \o SubSeq(hex, 1, best_start - 1)
    \o (IF best_start + best_len = 9 THEN <<<<>>, <<>>>> ELSE <<<<>>>>)
    \o SubSeq(hex, best_start + best_len, 8)

\* _compress_hextets, from "if best_doublecolon_len > 1" on
CompressRun(h, best_len) ==
    IF best_len > 1
    THEN Only({Compressed(hex, best_start, best_len) :
                 hex \in {[i \in 1..8 |-> SmallStr(h[i], 16)]},
                 best_start \in {BestStart(h, best_len)}})
    ELSE [i \in 1..8 |-> SmallStr(h[i], 16)]

\* _compress_hextets, for the hextets as integers
compress_hextets(h) ==
    Only({CompressRun(h, best_len) : best_len \in {BestLen(h)}})

\* IPv6Address._string_from_ip_int
ipv6_string(n) ==
    Only({Join(hextets, ":") :
            hextets \in {Only({compress_hextets(h) :
                                 h \in {[i \in 1..8 |-> Group(n, 9 - i, 16)]}})}})

\* str(address)
AddressStr(a) == IF a.version = 4 THEN ipv4_string(a.ip) ELSE ipv6_string(a.ip)

\* str(network): '%s/%d' % (network_address, prefixlen)
NetworkStr(net) ==
    Only({AddressStr(network_address) \o <<"/">> \o SmallStr(net.prefixlen, 10) :
            network_address \in {[version |-> net.version, ip |-> net.ip]}})

\* _count_righthand_zero_bits(number, bits)
count_righthand_zero_bits(number, bits) ==
    IF number = <<>> THEN bits ELSE Min(bits, LowZeros(number))

RECURSIVE SummarizeFrom(_, _, _)

\* summarize_address_range, after "yield net": the cursor has moved to next_int
\* and the loop ends at the top of the address space
SummarizeNext(net, next_int, last_int) ==
    IF BitLength(next_int) > max_prefixlen(net.version) THEN <<net>>
    ELSE <<net>> \o SummarizeFrom(next_int, last_int, net.version)

\* SummarizeBlock with the prefix length one too long
SummarizeBlockNarrow(first_int, last_int, version, nbits) ==
    Only({SummarizeNext(net, next_int, last_int) :
            net \in {[version |-> version, ip |-> first_int,
                      prefixlen |-> max_prefixlen(version) - nbits + 1]},
            next_int \in {Only({Add(first_int, step) : step \in {Pow2(nbits)}})}})

\* summarize_address_range, from "net = ip((first_int, ip_bits - nbits))" on
SummarizeBlock(first_int, last_int, version, nbits) ==
    Only({SummarizeNext(net, next_int, last_int) :
            net \in {[version |-> version, ip |-> first_int,
                      prefixlen |-> max_prefixlen(version) - nbits]},
            next_int \in {Only({Add(first_int, step) : step \in {Pow2(nbits)}})}})

\* the loop of summarize_address_range: first_int is the cursor
SummarizeFrom(first_int, last_int, version) ==
    IF ~Leq(first_int, last_int) THEN <<>>
    ELSE Only({SummarizeBlock(first_int, last_int, version, nbits) :
                 nbits \in {Only({Min(count_righthand_zero_bits(first_int,
                                          max_prefixlen(version)),
                                      BitLength(span) - 1) :
                                 span \in {Only({Add(distance, One) :
                                     distance \in {Sub(last_int, first_int)}})}})}})

\* list(summarize_address_range(first, last)) as [items |-> the networks], or Raise
summarize_address_range(first, last) ==
    IF Less(last.ip, first.ip) THEN Raise
    ELSE [items |-> SummarizeFrom(first.ip, last.ip, first.version)]

\* the address with the host bits below prefixlen cleared: packed & netmask
MaskHostBits(ip, prefixlen, version) ==
    Norm([i \in 1..Len(ip) |->
            IF i <= max_prefixlen(version) - prefixlen THEN 0 ELSE ip[i]])

\* _prefix_from_prefix_string, from "if not (0 <= prefixlen <= cls._max_prefixlen)"
PrefixInRange(prefixlen, version) ==
    IF \E max \in {FromInt(max_prefixlen(version))} : Less(max, prefixlen)
    THEN -1
    ELSE ToInt(prefixlen)

\* _prefix_from_prefix_string: the prefix length, -1 for NetmaskValueError
prefix_from_prefix_string(prefixlen_str, version) ==
    IF ~IsAsciiDigit(prefixlen_str) THEN -1
    ELSE Only({PrefixInRange(prefixlen, version) :
                 prefixlen \in {int_of(prefixlen_str)}})

\* _prefix_from_ip_int, from "prefixlen = cls._max_prefixlen - trailing_zeroes" on
PrefixOfOnes(ip_int, trailing_zeroes, prefixlen) ==
    IF SubSeq(ip_int, trailing_zeroes + 1, Len(ip_int)) = [i \in 1..prefixlen |-> 1]
    THEN prefixlen
    ELSE -1

\* the prefix length for a count of trailing zero bits
PrefixOfZeroes(ip_int, trailing_zeroes, version) ==
    PrefixOfOnes(ip_int, trailing_zeroes, max_prefixlen(version) - trailing_zeroes)

\* _prefix_from_ip_int: the prefix length of a netmask 1...10...0, -1 for ValueError
prefix_from_ip_int(ip_int, version) ==
    Only({PrefixOfZeroes(ip_int, trailing_zeroes, version) :
            trailing_zeroes \in {count_righthand_zero_bits(ip_int,
                                    max_prefixlen(version))}})

\* ip_int ^ _ALL_ONES
Invert(ip_int, version) ==
    Norm([i \in 1..max_prefixlen(version) |->
            IF i <= Len(ip_int) THEN 1 - ip_int[i] ELSE 1])

\* _prefix_from_ip_string: the netmask reading if it worked, else the hostmask one
NetmaskOrHostmask(prefixlen, ip_int) ==
    IF prefixlen # -1 THEN prefixlen
    ELSE Only({prefix_from_ip_int(hostmask, 4) : hostmask \in {Invert(ip_int, 4)}})

\* _prefix_from_ip_string, from the parsed address on
PrefixOfMask(addr) ==
    IF addr = Raise THEN -1
    ELSE Only({NetmaskOrHostmask(prefixlen, addr.ip) :
                 prefixlen \in {prefix_from_ip_int(addr.ip, 4)}})

\* _prefix_from_ip_string (IPv4 only): a dotted netmask or hostmask
prefix_from_ip_string(ip_str) ==
    Only({PrefixOfMask(addr) : addr \in {IPv4Address(ip_str)}})

\* _make_netmask, its except clause: IPv4 falls back to the dotted forms,
\* IPv6 does not
NetmaskFallback(prefixlen, arg, version) ==
    IF prefixlen # -1 THEN prefixlen
    ELSE IF version = 4 THEN prefix_from_ip_string(arg)
    ELSE -1

\* _make_netmask(arg) for a str
make_netmask(arg, version) ==
    Only({NetmaskFallback(prefixlen, arg, version) :
            prefixlen \in {prefix_from_prefix_string(arg, version)}})

\* the end of the network constructors: "if packed & int(self.netmask) != packed"
NetworkMasked(addr, prefixlen, network_ip, strict) ==
    IF strict /\ network_ip # addr.ip THEN Raise
    ELSE [version |-> addr.version, ip |-> network_ip, prefixlen |-> prefixlen]

\* the network constructors, from the parsed address and netmask on
NetworkOf(addr, prefixlen, strict) ==
    IF addr = Raise THEN Raise
    ELSE IF prefixlen = -1 THEN Raise
    ELSE Only({NetworkMasked(addr, prefixlen, network_ip, strict) :
                 network_ip \in {MaskHostBits(addr.ip, prefixlen, addr.version)}})

\* the network constructors, from the result of _split_optional_netmask on
NetworkOfParts(parts, strict, version) ==
    IF Len(parts) > 2 THEN Raise
    ELSE Only({NetworkOf(addr, prefixlen, strict) :
                 addr \in {IF version = 4 THEN IPv4Address(parts[1])
                           ELSE IPv6Address(parts[1])},
                 prefixlen \in {IF Len(parts) > 1
                                THEN make_netmask(parts[2], version)
                                ELSE max_prefixlen(version)}})

\* IPv4Network(address, strict) / IPv6Network(address, strict) for a str
Network(address, strict, version) ==
    Only({NetworkOfParts(parts, strict, version) : parts \in {Split(address, "/")}})

\* ipaddress.ip_network(address, strict): IPv4 first; an address or netmask
\* error of the IPv4 attempt is caught and IPv6 tried, any other error is not
ip_network(address, strict) ==
    IF Network(address, FALSE, 4) # Raise THEN Network(address, strict, 4)
    ELSE Network(address, strict, 6)

\* ipaddress.ip_address, after the IPv4 attempt
FirstAddress(ipv4_address, address) ==
    IF ipv4_address # Raise THEN ipv4_address ELSE IPv6Address(address)

\* ipaddress.ip_address(address): IPv4 first, then IPv6, else ValueError
ip_address(address) ==
    Only({FirstAddress(ipv4_address, address) :
            ipv4_address \in {IPv4Address(address)}})

-----------------------------------------------------------------------------
(* scripts/parse_apnic_data.py                                             *)

TYPE_IPV4 == <<"i", "p", "v", "4">>
TYPE_IPV6 == <<"i", "p", "v", "6">>
TYPE_ASN == <<"a", "s", "n">>

\* ParsedRecord without the check "if count_int <= 0"
ParsedRecordAnyCount(parts, count_int) ==
    [registry |-> parts[1],
     country |-> parts[2],
     type |-> parts[3],
     start |-> parts[4],
     count |-> count_int,
     date |-> parts[6],
     status |-> parts[7]]

\* parse_line, from "if count_int <= 0" on
ParsedRecord(parts, count_int) ==
    IF count_int = <<>> THEN None
    ELSE [registry |-> parts[1],
          country |-> parts[2],
          type |-> parts[3],
          start |-> parts[4],
          count |-> count_int,
          date |-> parts[6],
          status |-> parts[7]]

\* parse_line, from "if len(parts) < 7" on
ParsedFields(parts) ==
    IF Len(parts) < 7 THEN None
    ELSE IF parts[3] \notin {TYPE_IPV4, TYPE_IPV6, TYPE_ASN} THEN None
    ELSE IF ~IsDigit(parts[5]) THEN None               \* count_int = 0
    ELSE IF int_raises(parts[5]) THEN None             \* except ValueError
    ELSE Only({ParsedRecord(parts, count_int) : count_int \in {int_of(parts[5])}})

\* APNICParser.parse_line: the parsed dict, or None
parse_line(line) ==
    IF StartsWith(line, "#") \/ IsBlank(line) THEN None
    ELSE Only({ParsedFields(parts) : parts \in {Split(line, "|")}})

\* the dict calculate_ip_range returns from its except clause and for other types
RangeFallback(start_ip) == [start |-> start_ip, end |-> start_ip, cidr |-> start_ip]

\* OnRangeError without the except clause: the exception leaves
\* calculate_ip_range
UncaughtRangeError(start_ip) == Raise

\* what calculate_ip_range does with an exception raised inside its try block:
\* it is caught and the fallback dict returned
OnRangeError(start_ip) == RangeFallback(start_ip)

\* calculate_ip_range, from "cidr_list = list(network)" on: only the first
\* network of the list is used
RangeOfBlocks(start_ip, start, end, network) ==
    IF network = Raise THEN OnRangeError(start_ip)
    ELSE [start |-> AddressStr(start),
          end |-> AddressStr(end),
          cidr |-> IF network.items # <<>> THEN NetworkStr(network.items[1])
                   ELSE start_ip \o <<"/">>
                        \o SmallStr(max_prefixlen(start.version), 10)]

\* calculate_ip_range, from "network = summarize_address_range(start, end)" on
RangeToEnd(start_ip, start, end) ==
    IF end = Raise THEN OnRangeError(start_ip)
    ELSE Only({RangeOfBlocks(start_ip, start, end, network) :
                 network \in {summarize_address_range(start, end)}})

\* calculate_ip_range, "end = IPv4Address(int(start) + count - 1)", for
\* sum = int(start) + count
RangeFromSum(start_ip, start, sum) ==
    IF sum = <<>> THEN OnRangeError(start_ip)           \* IPv4Address(-1)
    ELSE Only({RangeToEnd(start_ip, start, end) :
                 end \in {AddressOfInt(Sub(sum, One), start.version)}})

\* calculate_ip_range, from the parsed start address on
RangeFromStart(start_ip, start, count) ==
    IF start = Raise THEN OnRangeError(start_ip)
    ELSE Only({RangeFromSum(start_ip, start, sum) :
                 sum \in {Add(start.ip, count)}})

\* APNICParser.calculate_ip_range: the dict {'start', 'end', 'cidr'}
calculate_ip_range(start_ip, count, ip_type) ==
    IF ip_type = TYPE_IPV4
    THEN Only({RangeFromStart(start_ip, start, count) :
                 start \in {IPv4Address(start_ip)}})
    ELSE IF ip_type = TYPE_IPV6
    THEN Only({RangeFromStart(start_ip, start, count) :
                 start \in {IPv6Address(start_ip)}})
    ELSE RangeFallback(start_ip)

\* dict.update: the keys of d2 added to or replaced in d1
Update(d1, d2) ==
    [k \in DOMAIN d1 \cup DOMAIN d2 |-> IF k \in DOMAIN d2 THEN d2[k] ELSE d1[k]]

\* the strict flag validate_ip_data passes to ipaddress.ip_network
ValidateStrict == FALSE

\* validate_ip_data, from the parsed start address on
ValidateFrom(e, start) ==
    IF start = Raise THEN FALSE
    ELSE IF e.count = <<>> THEN FALSE                   \* count <= 0
    ELSE IF "cidr" \in DOMAIN e
    THEN ip_network(e.cidr, ValidateStrict) # Raise
    ELSE TRUE

\* APNICParser.validate_ip_data
validate_ip_data(e) ==
    IF e.type = TYPE_IPV4 THEN ValidateFrom(e, IPv4Address(e.start))
    ELSE IF e.type = TYPE_IPV6 THEN ValidateFrom(e, IPv6Address(e.start))
    ELSE TRUE

-----------------------------------------------------------------------------
(* scripts/generate_cidr_lists.py                                          *)

\* the default country=None of generate_cidr_list
NoCountry == <<"None">>

\* characters in code point order, for Python's comparison of str
CodePointOrder ==
    <<"\t", "\r", " ", "#", "+", "-", ".", "/",
      "0", "1", "2", "3", "4", "5", "6", "7", "8", "9", ":",
      "A", "B", "C", "D", "E", "F", "I", "J", "N", "P", "S", "U", "V",
      "a", "b", "c", "d", "e", "f", "i", "n", "p", "s", "v", "x", "z",
      "|", "sup2", "ar3">>

CodePoint(c) == CHOOSE i \in DOMAIN CodePointOrder : CodePointOrder[i] = c

\* s < t for str: at the first index where they differ, s ends or is smaller
StrLess(s, t) ==
    \E i \in 1..Len(t) :
        /\ \A j \in 1..(i - 1) : j <= Len(s) /\ s[j] = t[j]
        /\ IF i > Len(s) THEN TRUE ELSE CodePoint(s[i]) < CodePoint(t[i])

\* ip_to_sort_key, from the parsed address on
SortKey(ip_str, ip_obj) ==
    IF ip_obj = Raise THEN [tag |-> 2, str |-> ip_str]
    ELSE IF ip_obj.version = 4 THEN [tag |-> 0, int |-> ip_obj.ip]
    ELSE [tag |-> 1, int |-> ip_obj.ip]

\* ip_to_sort_key: [tag, int] for an address (tag 0 IPv4, 1 IPv6),
\* [tag |-> 2, str] when the address part does not parse
ip_to_sort_key(ip_str) ==
    Only({SortKey(ip_str, ip_obj) : ip_obj \in {ip_address(Split(ip_str, "/")[1])}})

\* k1 < k2 for the tuples ip_to_sort_key returns
KeyLess(k1, k2) ==
    IF k1.tag # k2.tag THEN k1.tag < k2.tag
    ELSE IF k1.tag = 2 THEN StrLess(k1.str, k2.str)
    ELSE Less(k1.int, k2.int)

\* one insertion of a stable sort: x goes after every element not greater than it
RECURSIVE InsertByKey(_, _)
InsertByKey(sorted, x) ==
    IF sorted = <<>> THEN <<x>>
    ELSE IF \E k1 \in {ip_to_sort_key(x)}, k2 \in {ip_to_sort_key(Head(sorted))} :
                KeyLess(k1, k2)
         THEN <<x>> \o sorted
    ELSE <<Head(sorted)>> \o InsertByKey(Tail(sorted), x)

RECURSIVE SortFrom(_, _, _)
SortFrom(list, i, acc) ==
    IF i > Len(list) THEN acc
    ELSE SortFrom(list, i + 1, InsertByKey(acc, list[i]))

\* sorted(cidr_list, key=ip_to_sort_key): Python's sort is stable
SortedByKey(cidr_list) == SortFrom(cidr_list, 1, <<>>)

\* data[ip_type]
Entries(data, ip_type) ==
    IF ip_type = TYPE_IPV4 THEN data.ipv4
    ELSE IF ip_type = TYPE_IPV6 THEN data.ipv6
    ELSE data.asn

\* Selected without the comparison of the countries
SelectedAnyCountry(e, country) == "cidr" \in DOMAIN e

\* the entries generate_cidr_list does not skip: "if country and ..." treats
\* None and '' alike
Selected(e, country) ==
    /\ ~(country # NoCountry /\ country # <<>> /\ e.country # country)
    /\ "cidr" \in DOMAIN e

RECURSIVE CidrsOf(_, _, _)
CidrsOf(entries, country, i) ==
    IF i > Len(entries) THEN <<>>
    ELSE (IF Selected(entries[i], country) THEN <<entries[i].cidr>> ELSE <<>>)
         \o CidrsOf(entries, country, i + 1)

\* generate_cidr_list(data, ip_type, country)
generate_cidr_list(data, ip_type, country) ==
    SortedByKey(CidrsOf(Entries(data, ip_type), country, 1))

\* validate_cidr
validate_cidr(cidr) == ip_network(cidr, FALSE) # Raise

RECURSIVE CountryCidrs(_, _, _)
CountryCidrs(entries, country, i) ==
    IF i > Len(entries) THEN <<>>
    ELSE (IF /\ entries[i].country = country
             /\ "cidr" \in DOMAIN entries[i]
             /\ validate_cidr(entries[i].cidr)
          THEN <<entries[i].cidr>> ELSE <<>>)
         \o CountryCidrs(entries, country, i + 1)

\* main: the list saved for one country of one family (lines 100-126)
main_country_list(data, ip_type, country) ==
    SortedByKey(CountryCidrs(Entries(data, ip_type), country, 1))

-----------------------------------------------------------------------------
(* Input ledgers.  Field texts are written character by character.         *)

\* '0.0.0.0'
V4_ZERO ==
    <<"0", ".", "0", ".", "0", ".", "0">>

\* '1.0.0.0'
V4_1_0_0_0 ==
    <<"1", ".", "0", ".", "0", ".", "0">>

\* '1.0.1.0'
V4_1_0_1_0 ==
    <<"1", ".", "0", ".", "1", ".", "0">>

\* '1.0.2.0'
V4_1_0_2_0 ==
    <<"1", ".", "0", ".", "2", ".", "0">>

\* '1.0.0.1'
V4_1_0_0_1 ==
    <<"1", ".", "0", ".", "0", ".", "1">>

\* '8.8.8.0'
V4_8_8_8_0 ==
    <<"8", ".", "8", ".", "8", ".", "0">>

\* '9.0.0.0'
V4_9_0_0_0 ==
    <<"9", ".", "0", ".", "0", ".", "0">>

\* '10.0.0.0'
V4_10_0_0_0 ==
    <<"1", "0", ".", "0", ".", "0", ".", "0">>

\* '255.255.255.0'
V4_TOP_24 ==
    <<"2", "5", "5", ".", "2", "5", "5", ".", "2", "5", "5", ".", "0">>

\* '255.255.255.255'
V4_TOP ==
    <<"2", "5", "5", ".", "2", "5", "5", ".", "2", "5", "5", ".", "2", "5", "5">>

\* '1.0.0'
V4_SHORT ==
    <<"1", ".", "0", ".", "0">>

\* '01.0.0.1'
V4_LEADING_ZERO ==
    <<"0", "1", ".", "0", ".", "0", ".", "1">>

\* '::'
V6_ZERO ==
    <<":", ":">>

\* '::1'
V6_ONE ==
    <<":", ":", "1">>

\* '2001:200::'
V6_2001_200 ==
    <<"2", "0", "0", "1", ":", "2", "0", "0", ":", ":">>

\* '2001:0200::'
V6_2001_0200 ==
    <<"2", "0", "0", "1", ":", "0", "2", "0", "0", ":", ":">>

\* '2001:db8::'
V6_2001_DB8 ==
    <<"2", "0", "0", "1", ":", "d", "b", "8", ":", ":">>

\* '1:2:3:4:5:6:7:8'
V6_FULL ==
    <<"1", ":", "2", ":", "3", ":", "4", ":", "5", ":", "6", ":", "7", ":", "8">>

\* '::1.2.3.4'
V6_MAPPED ==
    <<":", ":", "1", ".", "2", ".", "3", ".", "4">>

\* 'ffff:ffff:ffff:ffff:ffff:ffff:ffff:ffff'
V6_TOP ==
    <<"f", "f", "f", "f", ":", "f", "f", "f", "f", ":", "f", "f", "f", "f", ":", "f", "f", "f", "f", ":", "f", "f", "f", "f", ":", "f", "f", "f", "f", ":", "f", "f", "f", "f", ":", "f", "f", "f", "f">>

\* 'ffff:ffff:ffff:ffff:ffff:ffff:ffff:0'
V6_TOP_16 ==
    <<"f", "f", "f", "f", ":", "f", "f", "f", "f", ":", "f", "f", "f", "f", ":", "f", "f", "f", "f", ":", "f", "f", "f", "f", ":", "f", "f", "f", "f", ":", "f", "f", "f", "f", ":", "0">>

\* '1::2::3'
V6_TWO_GAPS ==
    <<"1", ":", ":", "2", ":", ":", "3">>

\* '0'
N_0 ==
    <<"0">>

\* '1'
N_1 ==
    <<"1">>

\* '2'
N_2 ==
    <<"2">>

\* '3'
N_3 ==
    <<"3">>

\* '4'
N_4 ==
    <<"4">>

\* '255'
N_255 ==
    <<"2", "5", "5">>

\* '256'
N_256 ==
    <<"2", "5", "6">>

\* '257'
N_257 ==
    <<"2", "5", "7">>

\* '512'
N_512 ==
    <<"5", "1", "2">>

\* '768'
N_768 ==
    <<"7", "6", "8">>

\* '65536'
N_65536 ==
    <<"6", "5", "5", "3", "6">>

\* '4294967296'
N_2_32 ==
    <<"4", "2", "9", "4", "9", "6", "7", "2", "9", "6">>

\* '79228162514264337593543950336'
N_2_96 ==
    <<"7", "9", "2", "2", "8", "1", "6", "2", "5", "1", "4", "2", "6", "4", "3", "3", "7", "5", "9", "3", "5", "4", "3", "9", "5", "0", "3", "3", "6">>

\* '340282366920938463463374607431768211456'
N_2_128 ==
    <<"3", "4", "0", "2", "8", "2", "3", "6", "6", "9", "2", "0", "9", "3", "8", "4", "6", "3", "4", "6", "3", "3", "7", "4", "6", "0", "7", "4", "3", "1", "7", "6", "8", "2", "1", "1", "4", "5", "6">>

\* '007'
N_007 ==
    <<"0", "0", "7">>

\* '00'
N_00 ==
    <<"0", "0">>

\* 'CN'
CN ==
    <<"C", "N">>

\* 'US'
US ==
    <<"U", "S">>

\* 'a'
REGISTRY ==
    <<"a">>

\* 'd'
DATE ==
    <<"d">>

\* 's'
STATUS ==
    <<"s">>

\* '1221'
ASN_1221 ==
    <<"1", "2", "2", "1">>

\* one ledger line: the seven fields joined by '|'
Line(country, type_, start, count) ==
    Join(<<REGISTRY, country, type_, start, count, DATE, STATUS>>, "|")

\* the number of lines of a ledger handed to parse_data
MaxLines == 2

\* the lines ledgers are made of: aligned and unaligned allocations, two
\* allocations with the same start, an allocation running past the top of the
\* address space, an unparsable start, an empty country, and rejected lines
Ledger ==
    { Line(CN, TYPE_IPV4, V4_1_0_0_0, N_256),
      Line(US, TYPE_IPV4, V4_1_0_0_0, N_65536),
      Line(CN, TYPE_IPV4, V4_9_0_0_0, N_1),
      Line(CN, TYPE_IPV4, V4_10_0_0_0, N_768),
      Line(US, TYPE_IPV4, V4_TOP, N_2),
      Line(CN, TYPE_IPV4, V4_SHORT, N_256),
      Line(<<>>, TYPE_IPV4, V4_8_8_8_0, N_256),
      Line(CN, TYPE_IPV6, V6_2001_200, N_65536),
      Line(US, TYPE_IPV6, V6_2001_DB8, N_3),
      Line(CN, TYPE_IPV6, V6_ZERO, N_1),
      Line(US, TYPE_ASN, ASN_1221, N_1),
      Line(CN, TYPE_IPV4, V4_1_0_0_0, N_0),
      Line(CN, <<"i", "p", "v", "5">>, V4_1_0_0_0, N_1),
      <<>>,
      <<"#", "x">>,
      Join(<<REGISTRY, CN, TYPE_IPV4, V4_1_0_0_0, N_1, DATE>>, "|") }

\* data.split('\n') is never empty
Ledgers == UNION {[1..n -> Ledger] : n \in 1..MaxLines}

V4Starts ==
    {V4_ZERO, V4_1_0_0_0, V4_1_0_1_0, V4_1_0_2_0, V4_1_0_0_1, V4_8_8_8_0,
     V4_10_0_0_0, V4_TOP_24, V4_TOP, V4_SHORT, V4_LEADING_ZERO}

V6Starts ==
    {V6_ZERO, V6_ONE, V6_2001_200, V6_2001_0200, V6_2001_DB8, V6_FULL,
     V6_MAPPED, V6_TOP, V6_TOP_16, V6_TWO_GAPS, V4_1_0_0_0}

\* starts with at least 16 zero bits at the low end
V6AlignedStarts == {V6_ZERO, V6_2001_200, V6_2001_DB8, V6_TOP_16}

Counts ==
    {N_1, N_2, N_3, N_4, N_255, N_256, N_257, N_512, N_768, N_65536, N_007}

BigCounts == {N_2_32, N_2_96, N_2_128}

\* single allocations: every start with every count, in both families; the
\* counts of 2^32 and more go with the IPv4 starts and the aligned IPv6 starts
Allocations ==
    {Line(CN, TYPE_IPV4, st, k) : st \in V4Starts, k \in Counts \cup BigCounts}
    \cup {Line(US, TYPE_IPV6, st, k) : st \in V6Starts, k \in Counts}
    \cup {Line(US, TYPE_IPV6, st, k) : st \in V6AlignedStarts, k \in BigCounts}
    \cup {Line(CN, TYPE_ASN, ASN_1221, k) : k \in Counts}

\* texts of the 3rd field
TypeTexts ==
    {TYPE_IPV4, TYPE_IPV6, TYPE_ASN, <<>>,
     <<"i", "p", "v", "5">>, <<"I", "P", "V", "4">>, <<" ", "a", "s", "n">>}

\* texts of the 5th field
CountTexts ==
    {N_0, N_00, N_1, N_256, N_007, N_2_32, <<>>, <<"-", "1">>, <<"+", "1">>,
     <<" ", "1">>, <<"1", " ">>, <<"x">>, <<"1", "x">>, <<"1", ".", "5">>,
     <<"sup2">>, <<"1", "sup2">>, <<"ar3">>, <<"1", "ar3">>}

\* texts a line may start with, before its first field
LinePrefixes == {<<>>, <<"#">>, <<" ">>, <<" ", "#">>}

\* lines for parse_line: 0 to 9 fields, with every 3rd and 5th field text
ParserLines ==
    { pre \o Join(SubSeq(<<REGISTRY, CN, t, V4_1_0_0_0, k, DATE, STATUS,
                           <<"x">>, <<>>>>, 1, n), "|") :
        pre \in LinePrefixes, t \in TypeTexts, k \in CountTexts,
        n \in {0, 1, 6, 7, 8, 9} }

-----------------------------------------------------------------------------
(* APNICParser.parse_data, run line by line, followed by the list          *)
(* generation of generate_cidr_lists.py on its result                      *)

\* the state at the start of parse_data(data) for data.split('\n') = ls
Start(ls) ==
    /\ lines = ls
    /\ processed_lines = 0
    /\ skipped_lines = 0
    /\ ipv4 = <<>>
    /\ ipv6 = <<>>
    /\ asn = <<>>
    /\ pc = "parsing"
    /\ query = <<>>
    /\ out = <<>>
    /\ entry = None
    /\ verdict = FALSE

Init == \E ls \in Ledgers : Start(ls)

\* results[parsed['type']].append(parsed)
AppendResult(e) ==
    /\ ipv4' = IF e.type = TYPE_IPV4 THEN Append(ipv4, e) ELSE ipv4
    /\ ipv6' = IF e.type = TYPE_IPV6 THEN Append(ipv6, e) ELSE ipv6
    /\ asn' = IF e.type = TYPE_ASN THEN Append(asn, e) ELSE asn
    /\ UNCHANGED <<skipped_lines, pc>>

\* SkipLine without the increment of the counter
SkipLineUncounted == UNCHANGED <<skipped_lines, ipv4, ipv6, asn, pc>>

\* skipped_lines += 1
SkipLine ==
    /\ skipped_lines' = skipped_lines + 1
    /\ UNCHANGED <<ipv4, ipv6, asn, pc>>

\* lines 153-157: the entry with its range is validated, then skipped or kept
StoreRanged(e) ==
    IF ~validate_ip_data(e) THEN SkipLine ELSE AppendResult(e)

\* lines 150-157, for the dict calculate_ip_range returned; an exception that
\* left calculate_ip_range would leave parse_data as well
StoreWithRange(parsed, ip_range) ==
    IF ip_range = Raise
    THEN /\ pc' = "raised"
         /\ UNCHANGED <<skipped_lines, ipv4, ipv6, asn>>
    ELSE \E e \in {Update(parsed, ip_range)} : StoreRanged(e)

\* StoreParsed without the test of the type: asn records get a range as well
StoreParsedAllRanged(parsed) ==
    IF parsed = None THEN SkipLine
    ELSE \E ip_range \in {calculate_ip_range(parsed.start, parsed.count,
                                               parsed.type)} :
            StoreWithRange(parsed, ip_range)

\* lines 143-159, for the value parse_line returned
StoreParsed(parsed) ==
    IF parsed = None THEN SkipLine
    ELSE IF parsed.type \in {TYPE_IPV4, TYPE_IPV6}
    THEN \E ip_range \in {calculate_ip_range(parsed.start, parsed.count,
                                               parsed.type)} :
            StoreWithRange(parsed, ip_range)
    ELSE AppendResult(parsed)

\* one iteration of the loop of parse_data (lines 137-159)
ProcessLine ==
    /\ pc = "parsing"
    /\ processed_lines < Len(lines)
    /\ processed_lines' = processed_lines + 1
    /\ \E parsed \in {parse_line(lines[processed_lines + 1])} : StoreParsed(parsed)
    /\ UNCHANGED <<lines, query, out, entry, verdict>>

\* the loop is over: parse_data returns results (line 162)
Return ==
    /\ pc = "parsing"
    /\ processed_lines = Len(lines)
    /\ pc' = "returned"
    /\ UNCHANGED <<lines, processed_lines, skipped_lines, ipv4, ipv6, asn,
                   query, out, entry, verdict>>

\* the dict parse_data returned
Results == [ipv4 |-> ipv4, ipv6 |-> ipv6, asn |-> asn]

\* the countries a list is asked for: none, two codes, and the empty code
QueryCountries == {NoCountry, CN, US, <<>>}

\* a call generate_cidr_list(data, ip_type, country) on the parsed data
Generate ==
    /\ pc = "returned"
    /\ \E ip_type \in {TYPE_IPV4, TYPE_IPV6, TYPE_ASN}, country \in QueryCountries :
          /\ query' = <<"generate_cidr_list", ip_type, country>>
          /\ out' = generate_cidr_list(Results, ip_type, country)
    /\ UNCHANGED <<lines, processed_lines, skipped_lines, ipv4, ipv6, asn, pc,
                   entry, verdict>>

\* the countries of the entries of one family: the keys of main's dict
CountriesOf(entries) == {entries[i].country : i \in DOMAIN entries}

\* main: the list saved for one country of one family
SaveCountryList ==
    /\ pc = "returned"
    /\ \E ip_type \in {TYPE_IPV4, TYPE_IPV6} :
          \E country \in CountriesOf(Entries(Results, ip_type)) :
             /\ query' = <<"main", ip_type, country>>
             /\ out' = main_country_list(Results, ip_type, country)
    /\ UNCHANGED <<lines, processed_lines, skipped_lines, ipv4, ipv6, asn, pc,
                   entry, verdict>>

Next == ProcessLine \/ Return \/ Generate \/ SaveCountryList

Spec == Init /\ [][Next]_vars

\* parse_data is sequential code: a step that can be taken is taken
FairSpec == Spec /\ WF_vars(ProcessLine) /\ WF_vars(Return)

-----------------------------------------------------------------------------
(* parse_data on a ledger of one allocation                                *)

InitRecord == \E l \in Allocations : Start(<<l>>)

NextRecord == ProcessLine \/ Return

SpecRecord == InitRecord /\ [][NextRecord]_vars

-----------------------------------------------------------------------------
(* parse_line on one line                                                  *)

InitLine == \E l \in ParserLines : Start(<<l>>)

\* entry = self.parse_line(line)
ParseLine ==
    /\ pc = "parsing"
    /\ entry' = parse_line(lines[1])
    /\ pc' = "parsed"
    /\ UNCHANGED <<lines, processed_lines, skipped_lines, ipv4, ipv6, asn,
                   query, out, verdict>>

NextLine == ParseLine

SpecLine == InitLine /\ [][NextLine]_vars

-----------------------------------------------------------------------------
(* validate_ip_data on the records parse_data accepted, as they are and    *)
(* with the prefix length of their block changed by one                    *)

\* the block text cidr with its prefix length changed by d
WithPrefix(cidr, d) ==
    Split(cidr, "/")[1] \o <<"/">>
    \o SmallStr(SmallInt(Split(cidr, "/")[2], 10, 1, 0) + d, 10)

\* the records of the two address families
AddressRecords == Range(ipv4) \cup Range(ipv6)

InitValidate == InitRecord

\* self.validate_ip_data(e) on an accepted record
Revalidate ==
    /\ pc = "parsing"
    /\ processed_lines = 1
    /\ \E e \in AddressRecords :
          /\ entry' = e
          /\ verdict' = validate_ip_data(e)
    /\ pc' = "validated"
    /\ UNCHANGED <<lines, processed_lines, skipped_lines, ipv4, ipv6, asn,
                   query, out>>

\* self.validate_ip_data on an accepted record whose block has its prefix
\* length changed by +1 or -1
RevalidateMutated ==
    /\ pc = "parsing"
    /\ processed_lines = 1
    /\ \E e \in AddressRecords, d \in {-1, 1} :
          /\ "/" \in Range(e.cidr)
          /\ SmallInt(Split(e.cidr, "/")[2], 10, 1, 0) + d >= 0
          /\ entry' = [e EXCEPT !.cidr = WithPrefix(e.cidr, d)]
          /\ verdict' = validate_ip_data([e EXCEPT !.cidr = WithPrefix(e.cidr, d)])
    /\ pc' = "mutated"
    /\ UNCHANGED <<lines, processed_lines, skipped_lines, ipv4, ipv6, asn,
                   query, out>>

NextValidate == ProcessLine \/ Revalidate \/ RevalidateMutated

SpecValidate == InitValidate /\ [][NextValidate]_vars

-----------------------------------------------------------------------------
(* Notions the properties are stated with                                  *)

\* the k-th field of a ledger line
Field(line, k) == Split(line, "|")[k]

\* the address a start text denotes in the family of type_
StartAddress(type_, start) ==
    IF type_ = TYPE_IPV4 THEN IPv4Address(start) ELSE IPv6Address(start)

\* the width W of the addresses of a family
Width(type_) == IF type_ = TYPE_IPV4 THEN IPV4LENGTH ELSE IPV6LENGTH

\* start + count - 1 is an address of the family
InSpace(type_, start_int, count) ==
    BitLength(Sub(Add(start_int, count), One)) <= Width(type_)

\* the record is one of a valid (start, count, family)
ValidAllocation(e) ==
    /\ StartAddress(e.type, e.start) # Raise
    /\ e.count # <<>>
    /\ InSpace(e.type, StartAddress(e.type, e.start).ip, e.count)

\* the network a block text denotes
BlockOf(cidr) == ip_network(cidr, FALSE)

\* the addresses of the network are exactly first_int .. first_int + count - 1
CoversExactly(net, first_int, count, width) ==
    /\ net.ip = first_int
    /\ Pow2(width - net.prefixlen) = count

\* the number of records in the three lists
TotalRecords == Len(ipv4) + Len(ipv6) + Len(asn)

\* the record parse_data keeps for what parse_line returned, None when it
\* skips the line
KeptRecord(parsed) ==
    IF parsed = None THEN None
    ELSE IF parsed.type = TYPE_ASN THEN parsed
    ELSE Only({IF validate_ip_data(e) THEN e ELSE None :
                 e \in {Update(parsed,
                               calculate_ip_range(parsed.start, parsed.count,
                                                  parsed.type))}})

\* the record parse_data keeps for a line taken on its own
KeptAlone(line) == Only({KeptRecord(parsed) : parsed \in {parse_line(line)}})

\* the records of type type_ kept from the lines ls[1..n], in line order
RECURSIVE KeptOf(_, _, _)
KeptOf(ls, n, type_) ==
    IF n = 0 THEN <<>>
    ELSE KeptOf(ls, n - 1, type_)
         \o Only({IF e # None /\ e.type = type_ THEN <<e>> ELSE <<>> :
                    e \in {KeptAlone(ls[n])}})

\* what parse_line returns for the asn lines among ls[1..n], in line order
RECURSIVE AsnLines(_, _)
AsnLines(ls, n) ==
    IF n = 0 THEN <<>>
    ELSE AsnLines(ls, n - 1)
         \o Only({IF e # None /\ e.type = TYPE_ASN THEN <<e>> ELSE <<>> :
                    e \in {parse_line(ls[n])}})

\* s is an initial part of t
IsPrefix(s, t) == Len(s) <= Len(t) /\ SubSeq(t, 1, Len(s)) = s

\* the number of times x occurs in the sequence s
Occurrences(s, x) == Cardinality({i \in DOMAIN s : s[i] = x})

\* the number of records of the list with country as asked and block x
Matching(list, any_country, country, x) ==
    Cardinality({i \in DOMAIN list :
                    /\ any_country \/ list[i].country = country
                    /\ "cidr" \in DOMAIN list[i]
                    /\ list[i].cidr = x})

\* the block texts of all records
AllBlocks ==
    {e.cidr : e \in AddressRecords} \cup Range(out)

\* out is a permutation of the blocks of the records of the family asked for,
\* of every country or of the one country
IsSelection(ip_type, any_country, country) ==
    \A x \in AllBlocks :
        Occurrences(out, x)
        = Matching(Entries(Results, ip_type), any_country, country, x)

-----------------------------------------------------------------------------
(* The properties                                                          *)

\* C1: for every ipv4 or ipv6 record parse_data accepted whose start is a valid
\* address, whose count is at least 1 and whose start + count - 1 is within the
\* address space, the addresses covered by the record's block are exactly
\* start .. start + count - 1.
C1_Coverage ==
    \A e \in AddressRecords :
        ValidAllocation(e)
        => CoversExactly(BlockOf(e.cidr), StartAddress(e.type, e.start).ip,
                         e.count, Width(e.type))

\* C2: a parsed ipv4 or ipv6 line whose start is valid and whose
\* start + count - 1 is past the top of the address space is not appended to
\* any list and is counted as skipped.
C2_OutOfRangeDropped ==
    /\ processed_lines = 1
    /\ parse_line(lines[1]) # None
    /\ parse_line(lines[1]).type \in {TYPE_IPV4, TYPE_IPV6}
    /\ StartAddress(parse_line(lines[1]).type, parse_line(lines[1]).start) # Raise
    /\ ~InSpace(parse_line(lines[1]).type,
                StartAddress(parse_line(lines[1]).type,
                             parse_line(lines[1]).start).ip,
                parse_line(lines[1]).count)
    => /\ TotalRecords = 0
       /\ skipped_lines = 1

\* C3: validate_ip_data passes every record made by the range computation from
\* a valid (start, count, family), and fails every such record after the prefix
\* length of its block was changed by +1 or -1.
C3_Sensitivity ==
    /\ pc = "validated" /\ ValidAllocation(entry) => verdict
    /\ pc = "mutated" /\ ValidAllocation(entry) => ~verdict

\* a non-negative integer literal: one or more decimal digits
IsLiteral(s) == s # <<>> /\ \A i \in DOMAIN s : s[i] \in DecimalChars

\* the lines C4 lists as rejected
Rejected(line) ==
    \/ line # <<>> /\ line[1] = "#"
    \/ \A i \in DOMAIN line : line[i] \in Whitespace
    \/ Len(Split(line, "|")) < 7
    \/ Field(line, 3) \notin {TYPE_IPV4, TYPE_IPV6, TYPE_ASN}
    \/ ~IsLiteral(Field(line, 5))
    \/ \A i \in DOMAIN Field(line, 5) : DigitVal(Field(line, 5)[i]) = 0

\* C4: parse_line returns None, without raising, for a line that begins with
\* '#', is empty or blank, has fewer than 7 fields, has a 3rd field other than
\* 'ipv4', 'ipv6', 'asn', or has a 5th field that is no non-negative integer
\* literal or is 0; for every other line it returns the record of the first
\* seven fields, its count the positive integer value of the 5th.
C4_ParseLine ==
    pc = "parsed"
    => IF Rejected(lines[1]) THEN entry = None
       ELSE /\ entry = [registry |-> Field(lines[1], 1),
                        country |-> Field(lines[1], 2),
                        type |-> Field(lines[1], 3),
                        start |-> Field(lines[1], 4),
                        count |-> int_of(Field(lines[1], 5)),
                        date |-> Field(lines[1], 6),
                        status |-> Field(lines[1], 7)]
            /\ Less(<<>>, entry.count)

\* a line of seven fields with the count written 007 gives the count 7
C4_Witness ==
    /\ pc = "parsed"
    /\ ~Rejected(lines[1])
    /\ Field(lines[1], 5) = N_007
    /\ entry # None
    /\ entry.count = <<1, 1, 1>>

\* C5: every list generate_cidr_list returns, and every per-country list of
\* main, is in non-decreasing numeric order of the network addresses, and two
\* blocks with the same network address and different prefix lengths are in
\* ascending order of prefix length.
C5_Ordered ==
    \A i, j \in DOMAIN out :
        i < j
        => /\ ~Less(BlockOf(out[j]).ip, BlockOf(out[i]).ip)
           /\ (/\ BlockOf(out[i]).ip = BlockOf(out[j]).ip
               /\ BlockOf(out[i]).prefixlen # BlockOf(out[j]).prefixlen)
              => BlockOf(out[i]).prefixlen < BlockOf(out[j]).prefixlen

\* C6: parse_data never ends by an exception and always returns after visiting
\* every line, and then its lists hold, in line order, exactly the records each
\* line gives on its own: a rejected line, or one that fails range computation
\* or validation, keeps no other line out.
C6_NeverAborts ==
    /\ [](pc # "raised")
    /\ <>(pc = "returned")
    /\ [](pc = "returned"
          => /\ processed_lines = Len(lines)
             /\ ipv4 = KeptOf(lines, Len(lines), TYPE_IPV4)
             /\ ipv6 = KeptOf(lines, Len(lines), TYPE_IPV6)
             /\ asn = KeptOf(lines, Len(lines), TYPE_ASN))

\* the run returned after a first line whose start did not parse (the range
\* computation failed, then validation) and a second line that was accepted
C6_Witness ==
    /\ pc = "returned"
    /\ Len(lines) = 2
    /\ lines[1] = Line(CN, TYPE_IPV4, V4_SHORT, N_256)
    /\ skipped_lines = 1
    /\ Len(ipv4) = 1
    /\ ipv4[1].start = V4_1_0_0_0

\* the conclusion of C7 for the family list of the line, the start address and
\* the exponent k
OneBlock(line, list, start, k) ==
    /\ Len(list) = 1
    /\ TotalRecords = 1
    /\ skipped_lines = 0
    /\ list[1].country = Field(line, 2)
    /\ list[1].type = Field(line, 3)
    /\ list[1].cidr
       = AddressStr(start) \o <<"/">>
         \o SmallStr(Width(Field(line, 3)) - k, 10)

\* C7 for a line whose start and count were read: count = 2^k with k <= W and
\* start a multiple of 2^k
AlignedOneBlock(line, list, start, count) ==
    /\ start # Raise
    /\ count # <<>>
    /\ count = Pow2(BitLength(count) - 1)
    /\ BitLength(count) - 1 <= Width(Field(line, 3))
    /\ start.ip = <<>> \/ LowZeros(start.ip) >= BitLength(count) - 1
    => OneBlock(line, list, start, BitLength(count) - 1)

\* C7: for every ipv4 or ipv6 line whose count is 2^k (k <= W) and whose start
\* is a multiple of 2^k, parse_data accepts one record, with the line's country
\* and family and the block start/(W-k).
C7_AlignedOneBlock ==
    /\ processed_lines = 1
    /\ Len(Split(lines[1], "|")) >= 7
    /\ Field(lines[1], 3) \in {TYPE_IPV4, TYPE_IPV6}
    /\ IsLiteral(Field(lines[1], 5))
    => AlignedOneBlock(lines[1],
                       IF Field(lines[1], 3) = TYPE_IPV4 THEN ipv4 ELSE ipv6,
                       StartAddress(Field(lines[1], 3), Field(lines[1], 4)),
                       int_of(Field(lines[1], 5)))

\* the line a|CN|ipv4|1.0.1.0|256|d|s gave country CN and block 1.0.1.0/24
C7_Witness ==
    /\ processed_lines = 1
    /\ lines[1] = Line(CN, TYPE_IPV4, V4_1_0_1_0, N_256)
    /\ Len(ipv4) = 1
    /\ ipv4[1].country = CN
    /\ ipv4[1].cidr = <<"1", ".", "0", ".", "1", ".", "0", "/", "2", "4">>

\* C8: generate_cidr_list(data, F, C) returns a permutation of exactly the
\* blocks of the records of family F, restricted to the records whose country
\* is C when C is given.
C8_Selection ==
    /\ query # <<>>
    /\ query[1] = "generate_cidr_list"
    => IsSelection(query[2], query[3] = NoCountry, query[3])

\* C8, amended: generate_cidr_list(data, F, C) returns a permutation of exactly
\* the blocks of the records of family F, restricted to the records whose
\* country is C when C is given and is not the empty string; for C the empty
\* string, as for no C, it returns the blocks of every country.
C8_SelectionNonEmpty ==
    /\ query # <<>>
    /\ query[1] = "generate_cidr_list"
    => IsSelection(query[2], query[3] = NoCountry \/ query[3] = <<>>, query[3])

\* the list asked for CN left out the block of a US record
C8_Witness ==
    /\ query = <<"generate_cidr_list", TYPE_IPV4, CN>>
    /\ Len(ipv4) = 2
    /\ ipv4[1].country = US
    /\ ipv4[2].country = CN
    /\ out = <<ipv4[2].cidr>>

\* C9: the asn list holds, in line order, exactly what parse_line returned for
\* the asn lines visited, with no range and no block added; every record of
\* the ipv4 and ipv6 lists has a block.
C9_AsnPassThrough ==
    /\ asn = AsnLines(lines, processed_lines)
    /\ \A i \in DOMAIN asn : "cidr" \notin DOMAIN asn[i]
    /\ \A e \in AddressRecords : "cidr" \in DOMAIN e /\ e.cidr # <<>>

\* an asn record without block next to an ipv4 record with one
C9_Witness ==
    /\ Len(asn) = 1
    /\ "cidr" \notin DOMAIN asn[1]
    /\ Len(ipv4) = 1
    /\ "cidr" \in DOMAIN ipv4[1]

\* a step that visits a line either counts it as skipped and leaves the lists
\* alone, or leaves the counter alone and appends one record to the list its
\* type field names
VisitsOnce ==
    processed_lines' = processed_lines + 1
    => \/ /\ skipped_lines' = skipped_lines + 1
          /\ UNCHANGED <<ipv4, ipv6, asn>>
       \/ /\ skipped_lines' = skipped_lines
          /\ Len(ipv4') + Len(ipv6') + Len(asn') = TotalRecords + 1
          /\ Field(lines[processed_lines + 1], 3) = TYPE_IPV4
             => Len(ipv4') = Len(ipv4) + 1
          /\ Field(lines[processed_lines + 1], 3) = TYPE_IPV6
             => Len(ipv6') = Len(ipv6) + 1
          /\ Field(lines[processed_lines + 1], 3) = TYPE_ASN
             => Len(asn') = Len(asn) + 1

\* C10: processed_lines always equals skipped_lines plus the number of records
\* in the three lists; every visited line is either counted as skipped or
\* appended to the list of its type, never both and never neither; records in
\* a list are never removed or changed.
C10_Accounting ==
    /\ [](processed_lines = skipped_lines + TotalRecords)
    /\ [][/\ IsPrefix(ipv4, ipv4')
          /\ IsPrefix(ipv6, ipv6')
          /\ IsPrefix(asn, asn')
          /\ VisitsOnce]_vars

\* two lines visited: one skipped, one appended
C10_Witness ==
    /\ processed_lines = 2
    /\ skipped_lines = 1
    /\ Len(ipv4) = 1

====
